---- MODULE Spec2Model ----
(***************************************************************************)
(* A model of the NBA ingestion pipeline:                                  *)
(*   scripts/ingest_nba_data.py        fetch_player_metadata,              *)
(*                                     fetch_player_stats, load_to_duckdb, *)
(*                                     and the __main__ script             *)
(*   orchestration/dags/nba_ingest_dag.py   the Airflow task and its       *)
(*                                     retry policy                        *)
(* One process runs at a time: either the script started by the scheduler  *)
(* (caller = "main") or a direct call of one of the three functions        *)
(* (caller = "direct"), as a test or a notebook would make it.             *)
(***************************************************************************)
EXTENDS Integers, Sequences, FiniteSets, TLC

(* ------------------------------ bounds --------------------------------- *)
\* number of different rows (a row stands for one record of the upstream)
NumRows == 2
\* most result sets the upstream service returns for one request
MaxSets == 2

Rows == 1..NumRows

RECURSIVE SeqsUpTo(_, _)
SeqsUpTo(S, n) ==
    IF n = 0 THEN {<<>>}
    ELSE LET shorter == SeqsUpTo(S, n - 1)
         IN  shorter \cup {Append(s, x) : s \in shorter, x \in S}

\* a DataFrame is the sequence of its rows, in order, duplicates kept; the
\* DataFrames fetched and loaded are the empty one and those of one row
Tables == {<<>>} \cup {<<r>> : r \in Rows}

\* what the upstream service answers to one request: an error (network,
\* authentication, rejected season label) or a list of result sets
UpstreamResponses ==
    {[ok |-> FALSE, sets |-> <<>>]}
        \cup {[ok |-> TRUE, sets |-> s] : s \in SeqsUpTo(Tables, MaxSets)}

Seasons == {"2024-25", "2023-24"}

(* ------------------------- the scheduler's policy ---------------------- *)
retries == 1

(* ------------------------------- state --------------------------------- *)
VARIABLES
    db,               \* the DuckDB file: its schemas and the tables of schema raw
    con,              \* number of open connections to the file
    pc,               \* position of the running process
    caller,           \* "none", "main" (the script) or "direct" (a function call)
    df_players,       \* the players DataFrame (script global / load argument)
    df_player_stats,  \* the stats DataFrame (script global / load argument)
    exc,              \* the exception the last call raised, "none" if it returned
    task_state,       \* Airflow state of task run_ingest_script
    try_number,       \* Airflow try number of the task
    req,              \* history: the last request sent upstream
    resp,             \* history: the upstream's answer to it
    ret,              \* history: the value the last fetch returned
    log,              \* history: steps executed by the current run or call
    trail,            \* history: positions the current script run went through
    db0,              \* history: db when the current run or load call started
    outcomes,         \* history: how the executions of the current trigger ended
    lastop,           \* history: "load_ok" right after a load that returned
    repeat            \* history: this load call repeats the previous, successful one

vars == <<db, con, pc, caller, df_players, df_player_stats, exc, task_state,
          try_number, req, resp, ret, log, trail, db0, outcomes,
          lastop, repeat>>

NoReq == [endpoint |-> "none", season |-> "none", is_only_current_season |-> -1]
NoResp == [ok |-> FALSE, sets |-> <<>>]

EmptyDb == [schemas |-> {}, tables |-> <<>>]

Init ==
    /\ db = EmptyDb
    /\ con = 0
    /\ pc = "idle"
    /\ caller = "none"
    /\ df_players = <<>>
    /\ df_player_stats = <<>>
    /\ exc = "none"
    /\ task_state = "none"
    /\ try_number = 0
    /\ req = NoReq
    /\ resp = NoResp
    /\ ret = <<>>
    /\ log = <<>>
    /\ trail = <<>>
    /\ db0 = EmptyDb
    /\ outcomes = <<>>
    /\ lastop = "other"
    /\ repeat = FALSE


(* ------------------------- values and outcomes ------------------------- *)
Return(v) == [raised |-> "none", value |-> v]
Raise(e) == [raised |-> e, value |-> <<>>]

\* an nba_api endpoint object built from a successful response: it keeps the
\* result sets and offers them through get_data_frames()
Endpoint(sets) == [type |-> "Endpoint", data_sets |-> sets]

get_data_frames(endpoint) == endpoint.data_sets

\* pandas.DataFrame(data): the constructor accepts a DataFrame, a dict, an
\* array or a list-like (an iterable). An nba_api endpoint object is none of
\* these (it defines no __iter__ and no __array__), and pandas then raises
\* ValueError("DataFrame constructor not properly called!").
pd_DataFrame(data) ==
    IF data.type = "DataFrame" THEN Return(data.rows) ELSE Raise("ValueError")

\* variant: frames[-1]
LastFrame(frames) == frames[Len(frames)]

\* frames[0]
FirstFrame(frames) == frames[1]

\* fetch_player_metadata(), given the upstream's answer r to its request
fetch_player_metadata(r) ==
    IF ~r.ok THEN Raise("UpstreamError")
    ELSE LET player_data == Endpoint(r.sets)
         IN  pd_DataFrame(player_data)

\* fetch_player_stats(season), given the upstream's answer r to its request
fetch_player_stats(r) ==
    IF ~r.ok THEN Raise("UpstreamError")
    ELSE LET stats == Endpoint(r.sets)
             frames == get_data_frames(stats)
         IN  IF Len(frames) = 0 THEN Raise("IndexError")
             ELSE Return(FirstFrame(frames))

(* ------------------------------ the store ------------------------------ *)
TableNames == {"players", "player_stats"}

\* create schema if not exists raw
CreateSchemaIfNotExists(d) == [d EXCEPT !.schemas = @ \cup {"raw"}]

\* variant: create table if not exists raw.<name> as select * from <df>
CreateTableIfNotExistsAs(d, name, df) ==
    IF "raw" \notin d.schemas THEN [ok |-> FALSE, db |-> d]
    ELSE [ok |-> TRUE,
          db |-> [d EXCEPT !.tables =
                     [n \in (DOMAIN d.tables) \cup {name} |->
                         IF n \in DOMAIN d.tables THEN d.tables[n] ELSE df]]]

\* variant: insert into raw.<name> select * from <df>, creating it if absent
InsertIntoTableAs(d, name, df) ==
    IF "raw" \notin d.schemas THEN [ok |-> FALSE, db |-> d]
    ELSE [ok |-> TRUE,
          db |-> [d EXCEPT !.tables =
                     [n \in (DOMAIN d.tables) \cup {name} |->
                         IF n # name THEN d.tables[n]
                         ELSE IF n \in DOMAIN d.tables THEN d.tables[n] \o df
                         ELSE df]]]

\* create or replace table raw.<name> as select * from <df>
\* (a CatalogException when schema raw does not exist)
CreateOrReplaceTableAs(d, name, df) ==
    IF "raw" \notin d.schemas THEN [ok |-> FALSE, db |-> d]
    ELSE [ok |-> TRUE,
          db |-> [d EXCEPT !.tables =
                     [n \in (DOMAIN d.tables) \cup {name} |->
                         IF n = name THEN df ELSE d.tables[n]]]]

\* variant: con.close() as the last line of the block, skipped by an exception
WithExitConLeak(c, e) == IF e = "none" THEN c - 1 ELSE c

\* DuckDBPyConnection.__exit__: the connection is closed
WithExitCon(c, e) == c - 1

\* variant: the block is one transaction, rolled back by an exception
WithExitDbRollback(d, d0, e) == IF e = "none" THEN d ELSE d0

\* every statement ran in autocommit mode, so closing leaves the file as the
\* last successful statement left it
WithExitDb(d, d0, e) == d

(* ----------------------------- the script ------------------------------ *)
\* variant: the script loads before it fetches
MainEntryLoad == "L70"

\* the script starts at line 64
MainEntry == "L64"

\* the line the script goes to when the call at `line` returns
NextLine(line) ==
    CASE line = "L64" -> "L67"
      [] line = "L67" -> "L70"
      [] line = "L70" -> "done"

\* variant: the call is wrapped in try/except and the script carries on
OnRaiseContinue(line) == NextLine(line)

\* an exception in the script is not caught: traceback, exit status 1
OnRaise(line) == "failed"

AfterCall(line, raised) ==
    IF raised = "none" THEN NextLine(line) ELSE OnRaise(line)

\* the statements of the with block, lines 57-59
FirstStmt == "L57"

\* variant: lines 58 and 59 run before line 57's successor, stats first
NextStmtSwapped(line) ==
    CASE line = "L57" -> "L59"
      [] line = "L59" -> "L58"
      [] line = "L58" -> "with_exit"

NextStmt(line) ==
    CASE line = "L57" -> "L58"
      [] line = "L58" -> "L59"
      [] line = "L59" -> "with_exit"

Entry(op, ok) == [op |-> op, ok |-> ok, raw |-> "raw" \in db.schemas]

(* ------------------------------ scheduler ------------------------------ *)
\* variant: a failed try is always retried
NextTaskStateAlwaysRetry(result, try) ==
    IF result = "done" THEN "success" ELSE "up_for_retry"

\* Airflow: a failed try is retried while try_number <= retries
NextTaskState(result, try) ==
    IF result = "done" THEN "success"
    ELSE IF try <= retries THEN "up_for_retry"
    ELSE "failed"

\* BashOperator starts `python .../scripts/ingest_nba_data.py` as a new process
StartScript ==
    /\ pc' = MainEntry
    /\ caller' = "main"
    /\ task_state' = "running"
    /\ df_players' = <<>>
    /\ df_player_stats' = <<>>
    /\ exc' = "none"
    /\ req' = NoReq
    /\ resp' = NoResp
    /\ ret' = <<>>
    /\ log' = <<>>
    /\ trail' = <<MainEntry>>
    /\ db0' = db
    /\ lastop' = "other"
    /\ repeat' = FALSE
    /\ UNCHANGED <<db, con>>

\* schedule_interval=None: the DAG runs only when triggered by hand
TriggerDag ==
    /\ pc = "idle"
    /\ task_state \in {"none", "success", "failed"}
    /\ try_number' = 1
    /\ outcomes' = <<>>
    /\ StartScript

\* retries=1, retry_delay=5 minutes: the task is started again
RetryTask ==
    /\ pc = "idle"
    /\ task_state = "up_for_retry"
    /\ try_number' = try_number + 1
    /\ UNCHANGED outcomes
    /\ StartScript

\* the script's process has ended; the scheduler reads its exit status
TaskExit ==
    /\ caller = "main"
    /\ pc \in {"done", "failed"}
    /\ outcomes' = Append(outcomes, pc)
    /\ task_state' = NextTaskState(pc, try_number)
    /\ pc' = "idle"
    /\ caller' = "none"
    /\ UNCHANGED <<db, con, df_players, df_player_stats, exc, try_number,
                   req, resp, ret, log, trail, db0, lastop, repeat>>

(* ------------------------------- fetches ------------------------------- *)
\* fetch_player_metadata(), called by the script at line 64 or directly
CallFetchPlayerMetadata ==
    /\ pc \in {"idle", "L64"}
    /\ \E r \in UpstreamResponses :
        LET isMain == pc = "L64"
            out == fetch_player_metadata(r)
        IN  /\ req' = [endpoint |-> "commonallplayers", season |-> "none",
                       is_only_current_season |-> 0]
            /\ resp' = r
            /\ ret' = out.value
            /\ exc' = out.raised
            /\ df_players' =
                 IF isMain /\ out.raised = "none" THEN out.value
                 ELSE IF isMain THEN df_players ELSE <<>>
            /\ df_player_stats' = IF isMain THEN df_player_stats ELSE <<>>
            /\ pc' = IF isMain THEN AfterCall("L64", out.raised) ELSE "idle"
            /\ log' = (IF isMain THEN log ELSE <<>>)
                        \o <<Entry("fetch_player_metadata", out.raised = "none")>>
            /\ trail' = IF isMain THEN Append(trail, pc') ELSE trail
            /\ db0' = IF isMain THEN db0 ELSE db
    /\ lastop' = "other"
    /\ repeat' = FALSE
    /\ UNCHANGED <<db, con, caller, task_state, try_number, outcomes>>

\* fetch_player_stats(season), called by the script at line 67 (with the
\* default season) or directly
CallFetchPlayerStats ==
    /\ pc \in {"idle", "L67"}
    /\ \E season \in Seasons, r \in UpstreamResponses :
        LET isMain == pc = "L67"
            out == fetch_player_stats(r)
        IN  /\ isMain => season = "2024-25"
            /\ req' = [endpoint |-> "leaguedashplayerstats", season |-> season,
                       is_only_current_season |-> -1]
            /\ resp' = r
            /\ ret' = out.value
            /\ exc' = out.raised
            /\ df_player_stats' =
                 IF isMain /\ out.raised = "none" THEN out.value
                 ELSE IF isMain THEN df_player_stats ELSE <<>>
            /\ df_players' = IF isMain THEN df_players ELSE <<>>
            /\ pc' = IF isMain THEN AfterCall("L67", out.raised) ELSE "idle"
            /\ log' = (IF isMain THEN log ELSE <<>>)
                        \o <<Entry("fetch_player_stats", out.raised = "none")>>
            /\ trail' = IF isMain THEN Append(trail, pc') ELSE trail
            /\ db0' = IF isMain THEN db0 ELSE db
    /\ lastop' = "other"
    /\ repeat' = FALSE
    /\ UNCHANGED <<db, con, caller, task_state, try_number, outcomes>>

(* ---------------------------- load_to_duckdb --------------------------- *)
\* load_to_duckdb(P, S) is entered, by the script at line 70 or directly, and
\* duckdb.connect(db_path) runs (line 56)
LoadConnect ==
    /\ pc \in {"idle", "L70"}
    /\ \E P \in Tables, S \in Tables, fails \in BOOLEAN :
        LET isMain == pc = "L70"
        IN  /\ isMain => (P = df_players /\ S = df_player_stats)
            /\ df_players' = P
            /\ df_player_stats' = S
            /\ repeat' = (lastop = "load_ok" /\ P = df_players
                            /\ S = df_player_stats)
            /\ log' = (IF isMain THEN log ELSE <<>>) \o <<Entry("connect", ~fails)>>
            /\ req' = IF isMain THEN req ELSE NoReq
            /\ resp' = IF isMain THEN resp ELSE NoResp
            /\ ret' = IF isMain THEN ret ELSE <<>>
            /\ con' = IF fails THEN con ELSE con + 1
            /\ exc' = IF fails THEN "IOException" ELSE "none"
            /\ pc' = IF ~fails THEN FirstStmt
                     ELSE IF isMain THEN OnRaise("L70") ELSE "idle"
            /\ caller' = IF isMain THEN "main" ELSE IF fails THEN "none" ELSE "direct"
            /\ trail' = IF isMain THEN Append(trail, pc') ELSE trail
    /\ db0' = db
    /\ lastop' = "other"
    /\ UNCHANGED <<db, task_state, try_number, outcomes>>

\* one con.execute(...) of the with block: `res` is what the statement does
\* to the store, `fails` a failure of the store itself
Execute(line, op, res, fails) ==
    LET ok == res.ok /\ ~fails
    IN  /\ db' = IF ok THEN res.db ELSE db
        /\ exc' = IF ok THEN "none" ELSE "Error"
        /\ pc' = IF ok THEN NextStmt(line) ELSE "with_exit"
        /\ log' = Append(log, Entry(op, ok))
        /\ trail' = IF caller = "main" THEN Append(trail, pc') ELSE trail
        /\ UNCHANGED <<con, caller, df_players, df_player_stats, task_state,
                       try_number, req, resp, ret, db0, outcomes,
                       lastop, repeat>>

\* line 57
LoadCreateSchema ==
    /\ pc = "L57"
    /\ \E fails \in BOOLEAN :
        Execute("L57", "create_schema",
                [ok |-> TRUE, db |-> CreateSchemaIfNotExists(db)], fails)

\* line 58
LoadReplacePlayers ==
    /\ pc = "L58"
    /\ \E fails \in BOOLEAN :
        Execute("L58", "replace_players",
                CreateOrReplaceTableAs(db, "players", df_players), fails)

\* line 59
LoadReplacePlayerStats ==
    /\ pc = "L59"
    /\ \E fails \in BOOLEAN :
        Execute("L59", "replace_player_stats",
                CreateOrReplaceTableAs(db, "player_stats", df_player_stats), fails)

\* the with block is left: the connection's __exit__ runs, then the call
\* returns or the pending exception goes on to the caller
LoadExit ==
    /\ pc = "with_exit"
    /\ con' = WithExitCon(con, exc)
    /\ db' = WithExitDb(db, db0, exc)
    /\ pc' = IF caller = "main" THEN AfterCall("L70", exc) ELSE "idle"
    /\ caller' = IF caller = "main" THEN "main" ELSE "none"
    /\ trail' = IF caller = "main" THEN Append(trail, pc') ELSE trail
    /\ lastop' = IF exc = "none" THEN "load_ok" ELSE "other"
    /\ UNCHANGED <<df_players, df_player_stats, exc, task_state, try_number,
                   req, resp, ret, log, db0, outcomes, repeat>>

Next ==
    \/ TriggerDag
    \/ RetryTask
    \/ TaskExit
    \/ CallFetchPlayerMetadata
    \/ CallFetchPlayerStats
    \/ LoadConnect
    \/ LoadCreateSchema
    \/ LoadReplacePlayers
    \/ LoadReplacePlayerStats
    \/ LoadExit

Spec == Init /\ [][Next]_vars

(* ============================== properties ============================= *)
InLoad == pc \in {"L57", "L58", "L59", "with_exit"}

LastStep == IF log = <<>> THEN [op |-> "none", ok |-> TRUE, raw |-> FALSE]
            ELSE log[Len(log)]

IsStatement(e) == e.op \in {"create_schema", "replace_players", "replace_player_stats"}

Ops(l) == [i \in 1..Len(l) |-> l[i].op]

IsPrefix(s, t) == Len(s) <= Len(t) /\ \A i \in 1..Len(s) : s[i] = t[i]

Succeeded(op) == \E i \in 1..Len(log) : log[i].op = op /\ log[i].ok

HasTable(d, name) == name \in DOMAIN d.tables

\* C1: right after a load_to_duckdb(P, S) that returned, schema raw holds
\* exactly the two tables, raw.players with exactly the rows of P and
\* raw.player_stats with exactly the rows of S, whatever the file held before.
C1_ReplaceExactly ==
    lastop = "load_ok" =>
        /\ "raw" \in db.schemas
        /\ DOMAIN db.tables = TableNames
        /\ db.tables["players"] = df_players
        /\ db.tables["player_stats"] = df_player_stats

\* a load of an empty players table over a file that held player rows
C1_Witness ==
    /\ lastop = "load_ok"
    /\ HasTable(db0, "players") /\ db0.tables["players"] # <<>>
    /\ HasTable(db0, "player_stats")
    /\ db0.tables["player_stats"] # df_player_stats
    /\ df_players = <<>>
    /\ df_player_stats # <<>>

StatsReplaceFailed ==
    /\ LastStep.op = "replace_player_stats"
    /\ ~LastStep.ok

\* C2: when the replace of raw.player_stats fails after raw.players was
\* replaced, then, before and after the connection is released, raw.players
\* holds the new players data, raw.player_stats is as it was when the call
\* began (absent if it was absent), and the caller gets the error.
C2_NoRollback ==
    StatsReplaceFailed =>
        /\ HasTable(db, "players") /\ db.tables["players"] = df_players
        /\ HasTable(db, "player_stats") <=> HasTable(db0, "player_stats")
        /\ HasTable(db, "player_stats") =>
               db.tables["player_stats"] = db0.tables["player_stats"]
        /\ exc # "none"
        /\ (caller = "main" /\ pc # "with_exit") => pc = "failed"

\* the call has ended, players changed and the old stats differ from S
C2_Witness ==
    /\ StatsReplaceFailed
    /\ pc = "idle"
    /\ HasTable(db0, "players") /\ db0.tables["players"] # df_players
    /\ HasTable(db0, "player_stats")
    /\ db0.tables["player_stats"] # df_player_stats

\* C3: no connection is open in any state outside the with block of a load
\* call, so the connection is closed in every terminal state of a call; inside
\* the block exactly one is open.
C3_ConnectionClosed ==
    /\ ~InLoad => con = 0
    /\ InLoad => con = 1

\* a load call that ended with an error raised by the players replace
C3_Witness ==
    /\ pc = "idle"
    /\ LastStep.op = "replace_players" /\ ~LastStep.ok
    /\ exc # "none"
    /\ con = 0

Phase(p) ==
    CASE p \in {"L64", "L67"} -> "fetching"
      [] p \in {"L70", "L57", "L58", "L59", "with_exit"} -> "loading"
      [] p = "done" -> "done"
      [] p = "failed" -> "failed"

PhaseMoves ==
    {<<"fetching", "fetching">>, <<"fetching", "loading">>,
     <<"loading", "loading">>, <<"loading", "done">>,
     <<"fetching", "failed">>, <<"loading", "failed">>}

AllSteps ==
    <<"fetch_player_metadata", "fetch_player_stats", "connect",
      "create_schema", "replace_players", "replace_player_stats">>

\* C4: a script run moves only along fetching -> loading -> done or from
\* fetching or loading to failed; a step that raised is the last step of the
\* run and the run is then failed (or releasing the connection on its way
\* there); the run is failed only after a step raised; and done is reached
\* only after both fetches, the connect and the three statements succeeded.
C4_RunStateMachine ==
    caller = "main" =>
        /\ trail # <<>> /\ Phase(trail[1]) = "fetching"
        /\ trail[Len(trail)] = pc
        /\ \A i \in 1..(Len(trail) - 1) :
               <<Phase(trail[i]), Phase(trail[i + 1])>> \in PhaseMoves
        /\ \A i \in 1..Len(log) :
               ~log[i].ok => (i = Len(log) /\ pc \in {"with_exit", "failed"})
        /\ pc = "failed" => (log # <<>> /\ ~LastStep.ok)
        /\ pc = "done" => (Ops(log) = AllSteps /\ \A i \in 1..Len(log) : log[i].ok)

\* a run that failed in its first fetch
C4_Witness ==
    /\ caller = "main"
    /\ pc = "failed"
    /\ Ops(log) = <<"fetch_player_metadata">>
    /\ trail = <<"L64", "failed">>

\* C5: a load_to_duckdb(P, S) called right after a load_to_duckdb(P, S) that
\* returned leaves the file, at every step and at its end, as the first call
\* left it.
C5_Idempotent == repeat => db = db0

\* the second call has returned too, with non-empty tables
C5_Witness ==
    /\ repeat
    /\ lastop = "load_ok"
    /\ df_players # <<>>
    /\ df_player_stats # <<>>

\* C6: when the upstream answers the season's request with N >= 1 result
\* sets, fetch_player_stats returns, and returns the first of them.
C6_FirstResultSet ==
    (LastStep.op = "fetch_player_stats" /\ resp.ok /\ Len(resp.sets) >= 1) =>
        /\ exc = "none"
        /\ ret = resp.sets[1]
        /\ req.season \in Seasons

\* two different result sets came back and the first, non-empty, was returned
C6_Witness ==
    /\ LastStep.op = "fetch_player_stats"
    /\ resp.ok /\ Len(resp.sets) = 2
    /\ resp.sets[1] # resp.sets[2]
    /\ resp.sets[1] # <<>>
    /\ ret = resp.sets[1]

\* C7: fetch_player_metadata asks for all players, historical ones included,
\* and when the upstream answers with the player directory it returns that
\* result set's table.
C7_MetadataMirrorsUpstream ==
    (LastStep.op = "fetch_player_metadata" /\ resp.ok /\ Len(resp.sets) >= 1) =>
        /\ req.is_only_current_season = 0
        /\ exc = "none"
        /\ ret = resp.sets[1]

\* C8: for one trigger the script is executed at most twice; a second
\* execution follows only a failed first one; every execution starts at the
\* first fetch with nothing carried over; after a successful execution the
\* task is in state success and nothing runs.
C8_AtMostOneRetry ==
    /\ try_number <= 2
    /\ Len(outcomes) <= 2
    /\ try_number = Len(outcomes) + (IF caller = "main" THEN 1 ELSE 0)
    /\ try_number = 2 => outcomes[1] = "failed"
    /\ caller = "main" => (trail # <<>> /\ trail[1] = "L64")
    /\ (caller = "main" /\ Len(trail) = 1) => (log = <<>> /\ df_players = <<>>
                                                /\ df_player_stats = <<>>)
    /\ (caller = "main" /\ pc = "done") => Ops(log) = AllSteps
    /\ (\E i \in 1..Len(outcomes) : outcomes[i] = "done") =>
           (outcomes[Len(outcomes)] = "done" /\ task_state = "success"
              /\ caller = "none")
    /\ task_state = "up_for_retry" => outcomes = <<"failed">>

\* the second execution is at its first fetch, over a file that has tables
C8_Witness ==
    /\ try_number = 2
    /\ caller = "main"
    /\ pc = "L64"
    /\ log = <<>>
    /\ outcomes = <<"failed">>
    /\ HasTable(db, "players")

Statements == SelectSeq(log, IsStatement)

\* C9: the statements a load call runs are, in this order, a prefix of create
\* schema, replace raw.players, replace raw.player_stats, all inside the one
\* open connection; schema raw exists whenever a replace is attempted; and
\* once the schema statement succeeded raw exists and no table was touched.
C9_StatementOrder ==
    /\ IsPrefix(Ops(Statements),
                <<"create_schema", "replace_players", "replace_player_stats">>)
    /\ \A i \in 1..Len(Statements) :
           Statements[i].op # "create_schema" => Statements[i].raw
    /\ (Statements # <<>> /\ InLoad) => con = 1
    /\ (Len(Statements) = 1 /\ Statements[1].ok) =>
           ("raw" \in db.schemas /\ db.tables = db0.tables)

\* all three statements ran in a call that found raw already there
C9_Witness ==
    /\ Ops(Statements) =
           <<"create_schema", "replace_players", "replace_player_stats">>
    /\ Statements[1].raw
    /\ \A i \in 1..3 : Statements[i].ok
    /\ HasTable(db0, "players")

BothFetched == Succeeded("fetch_player_metadata") /\ Succeeded("fetch_player_stats")

\* C10: in a script run, until both fetches have returned, no connection is
\* open and the file is as it was when the run started; so it is in a run that
\* ends because a fetch raised.
C10_FetchFailureLeavesStore ==
    (caller = "main" /\ ~BothFetched) =>
        /\ db = db0
        /\ con = 0
        /\ ~InLoad

\* a run that ended in a fetch error, over a file that holds player rows
C10_Witness ==
    /\ caller = "main"
    /\ pc = "failed"
    /\ ~LastStep.ok
    /\ LastStep.op \in {"fetch_player_metadata", "fetch_player_stats"}
    /\ HasTable(db, "players") /\ db.tables["players"] # <<>>
    /\ db = db0

====
